---- MODULE Spec2Model ----
(***************************************************************************)
(* A model of ilpedante_mirror/bulk_download.py: the numeric-page           *)
(* pagination generator (page_generator), the listing extractor            *)
(* (parse_link), the post extractor (parse_post) and the three-phase       *)
(* orchestrator (main).  The blog server is the environment: it answers    *)
(* each listing request with any response of ListingResponses, and each    *)
(* post url with the response the map `posts` holds for it.                *)
(***************************************************************************)
EXTENDS Integers, Sequences, FiniteSets, TLC

(***************************************************************************)
(* Bounds of the model.                                                    *)
(***************************************************************************)
\* The model keeps the first MaxPage yielded pages exactly; a run that
\* yields more is followed only as "the server keeps answering with content".
MaxPage == 2

(***************************************************************************)
(* Values.                                                                 *)
(***************************************************************************)
\* Python's None in a string-valued field, and in a text-valued field.
None == "None"
Null == <<"None">>
\* A tag that find() does not find.
Absent == "Absent"
NoErr == ""

Urls == {"u1", "u2"}

RECURSIVE SumSeq(_)
SumSeq(s) == IF s = <<>> THEN 0 ELSE Head(s) + SumSeq(Tail(s))

RECURSIVE Flatten(_)
Flatten(ss) == IF ss = <<>> THEN <<>> ELSE Head(ss) \o Flatten(Tail(ss))

Count(x, s) == Cardinality({i \in 1..Len(s) : s[i] = x})

\* The non-empty sequences of distinct elements of S.
Arrangements(S) ==
    {s \in UNION {[1..n -> S] : n \in 1..Cardinality(S)} :
        \A i, j \in 1..Len(s) : i # j => s[i] # s[j]}

(***************************************************************************)
(* Documents.  A post preview is an <article class="articoli-item">; it     *)
(* may hold an <h1 class="titolo"> (with text, and maybe an <a> with an     *)
(* href) and the author and datePublished <meta> tags.  A document holds   *)
(* `extra` tags outside its previews, the previews, and at most one        *)
(* <div itemprop="articleBody"> (body = <<>>: none; <<text>>: one).         *)
(***************************************************************************)
Item(h1, a, href, text, author, date) ==
    [h1 |-> h1, a |-> a, href |-> href, text |-> text, author |-> author, date |-> date]

ValidItem(u) == Item(TRUE, TRUE, u, <<" ", "T", " ">>, "au", "2020-01-12")
NoAnchorItem == Item(TRUE, FALSE, None, <<"T">>, "au", "2020-01-12")
NoHrefItem == Item(TRUE, TRUE, None, <<"T">>, "au", "2020-01-12")
BlankTitleItem == Item(TRUE, TRUE, "u1", <<" ", " ">>, "au", "2020-01-12")
NoAuthorItem == Item(TRUE, TRUE, "u1", <<"T">>, Absent, "2020-01-12")
BadDateItem == Item(TRUE, TRUE, "u1", <<"T">>, "au", "bad")

BrokenItems == {NoAnchorItem, NoHrefItem, BlankTitleItem, NoAuthorItem, BadDateItem}

Doc(extra, items, body) == [extra |-> extra, items |-> items, body |-> body]

\* The tags of one preview: the article, its h1, the h1's a, the two metas.
ItemTags(it) ==
    1 + (IF it.h1 THEN 1 ELSE 0) + (IF it.a THEN 1 ELSE 0)
      + (IF it.author # Absent THEN 1 ELSE 0) + (IF it.date # Absent THEN 1 ELSE 0)

\* len(soup.find_all(True))
number_of_tags(soup) ==
    soup.extra + SumSeq([i \in 1..Len(soup.items) |-> ItemTags(soup.items[i])])
      + Len(soup.body)

\* request.content: empty bytes, or the bytes of a document.
Content(empty, doc) == [empty |-> empty, doc |-> doc]
EmptyContent == Content(TRUE, Doc(0, <<>>, <<>>))

\* BeautifulSoup(content, features="html.parser")
BeautifulSoup(content) == IF content.empty THEN Doc(0, <<>>, <<>>) ELSE content.doc

\* What requests.get does: it raises exc, or returns a response.
Response(exc, status, content) == [exc |-> exc, status |-> status, content |-> content]


(***************************************************************************)
(* parse_link: the records of one listing page.                            *)
(***************************************************************************)
IsSpace(c) == c = " "

\* str.strip(): leading and trailing white space removed.
RECURSIVE lstrip(_)
lstrip(s) == IF s # <<>> /\ IsSpace(Head(s)) THEN lstrip(Tail(s)) ELSE s

RECURSIVE rstrip(_)
rstrip(s) ==
    IF s # <<>> /\ IsSpace(s[Len(s)]) THEN rstrip(SubSeq(s, 1, Len(s) - 1)) ELSE s

strip(s) == rstrip(lstrip(s))

\* pd.to_datetime on one value: None becomes NaT, a date a Timestamp, and
\* anything else makes it raise.
DateParses(d) == d \in {None, "2020-01-12"}
to_datetime(d) == IF d = None THEN "NaT" ELSE "Timestamp(2020-01-12)"

\* The dict of one preview raises AttributeError when find() returned None
\* where the code goes on to .a, .get or .text.
PreviewRaises(it) == ~it.h1 \/ ~it.a \/ it.author = Absent \/ it.date = Absent

PreviewRecord(it) ==
    [url |-> it.href, title |-> strip(it.text), author |-> it.author, date |-> it.date]

Result(err, df) == [err |-> err, df |-> df]

\* parse_link keeping only the first preview of a page.
ParseLinkFirstOnly(soup) ==
    LET post_previews == soup.items
    IN  IF post_previews = <<>> \/ PreviewRaises(post_previews[1])
             \/ ~DateParses(post_previews[1].date)
        THEN Result("AttributeError", <<>>)
        ELSE Result(NoErr,
                    << [PreviewRecord(post_previews[1]) EXCEPT
                           !.date = to_datetime(post_previews[1].date)] >>)

parse_link(soup) ==
    LET post_previews == soup.items
        posts_ == [i \in 1..Len(post_previews) |-> PreviewRecord(post_previews[i])]
    IN  IF \E i \in 1..Len(post_previews) : PreviewRaises(post_previews[i])
        THEN Result("AttributeError", <<>>)
        ELSE IF posts_ = <<>>
        THEN Result("KeyError", <<>>)     \* from_records([]) has no "date" column
        ELSE IF \E i \in 1..Len(posts_) : ~DateParses(posts_[i].date)
        THEN Result("ValueError", <<>>)
        ELSE Result(NoErr,
                    [i \in 1..Len(posts_) |->
                        [posts_[i] EXCEPT !.date = to_datetime(posts_[i].date)]])

(***************************************************************************)
(* parse_post: the body of one post, as markup and as Markdown.            *)
(***************************************************************************)
IsTag(c) == c \in {"<div>", "</div>"}

\* article.prettify(): the container's markup, its tags included.
prettify(article) == <<"<div>">> \o article \o <<"</div>">>

\* markdownify(): the text of the markup, its tags dropped.
markdownify(markup) == SelectSeq(markup, LAMBDA c : ~IsTag(c))

\* parse_post returning a row with no body where the container is missing.
ParsePostSkipsMissing(row) ==
    LET article == row.soup.body
        post == IF article = <<>> THEN Null ELSE prettify(article[1])
    IN  Result(NoErr,
               [url |-> row.url, title |-> row.title, author |-> row.author,
                date |-> row.date, html |-> row.html, soup |-> row.soup,
                post |-> post,
                post_markdown |-> IF article = <<>> THEN Null ELSE markdownify(post)])

parse_post(row) ==
    LET article == row.soup.body
    IN  IF article = <<>>
        THEN Result("AttributeError", row)      \* None.prettify()
        ELSE LET post == prettify(article[1])
             IN  Result(NoErr,
                        [url |-> row.url, title |-> row.title, author |-> row.author,
                         date |-> row.date, html |-> row.html, soup |-> row.soup,
                         post |-> post, post_markdown |-> markdownify(post)])

(***************************************************************************)
(* page_generator: one pass of its loop body on the response to page i.    *)
(***************************************************************************)
\* An except clause that names ConnectionError alone.
CaughtConnectionOnly(exc) == exc = "ConnectionError"

\* except requests.exceptions.RequestException
Caught(exc) == exc \in {"ConnectionError", "HTTPError", "MissingSchema"}

\* requests.get raised, or raise_for_status does.
Raised(r) == IF r.exc # NoErr THEN r.exc ELSE IF r.status >= 400 THEN "HTTPError" ELSE NoErr

\* The loop body yielding the one-tag page instead of breaking on it.
PageOutcomeYieldsOneTag(r) ==
    IF Raised(r) # NoErr
    THEN (IF Caught(Raised(r)) THEN "break" ELSE "raise")
    ELSE IF r.content.empty
    THEN "break"
    ELSE "yield"

\* The loop body without its test for empty content.
PageOutcomeIgnoresEmpty(r) ==
    IF Raised(r) # NoErr
    THEN (IF Caught(Raised(r)) THEN "break" ELSE "raise")
    ELSE IF number_of_tags(BeautifulSoup(r.content)) = 1
    THEN "break"
    ELSE "yield"

PageOutcome(r) ==
    IF Raised(r) # NoErr
    THEN (IF Caught(Raised(r)) THEN "break" ELSE "raise")
    ELSE IF r.content.empty
    THEN "break"
    ELSE IF number_of_tags(BeautifulSoup(r.content)) = 1
    THEN "break"
    ELSE "yield"

(***************************************************************************)
(* The server's answers the model draws from.                              *)
(***************************************************************************)
\* The previews of a well-formed listing page: each url once.
PageItemSeqs == {[i \in 1..Len(s) |-> ValidItem(s[i])] : s \in Arrangements(Urls)}

PageDocs ==
    {Doc(e, <<>>, <<>>) : e \in 0..2}
      \cup {Doc(0, s, <<>>) : s \in PageItemSeqs}
      \cup {Doc(0, <<it>>, <<>>) : it \in BrokenItems}

ListingResponses ==
    {Response("ConnectionError", 0, EmptyContent),
     Response(NoErr, 404, EmptyContent),
     Response(NoErr, 500, Content(FALSE, Doc(0, <<ValidItem("u1")>>, <<>>))),
     Response(NoErr, 200, EmptyContent)}
      \cup {Response(NoErr, 200, Content(FALSE, d)) : d \in PageDocs}

\* What the server answers to the request of page i.  Above MaxPage the model
\* follows the answers that end the sequence, and one page that does not.
RepeatPage == Response(NoErr, 200, Content(FALSE, Doc(0, <<ValidItem("u1")>>, <<>>)))

ListingResponsesAt(i) ==
    IF i <= MaxPage THEN ListingResponses
    ELSE {r \in ListingResponses : PageOutcome(r) # "yield" \/ r = RepeatPage}

PostDocs == {Doc(2, <<>>, <<>>), Doc(2, <<>>, << <<" ", "p">> >>)}

PostResponses ==
    {Response("ConnectionError", 0, EmptyContent),
     Response(NoErr, 404, Content(FALSE, Doc(2, <<>>, << <<"e">> >>)))}
      \cup {Response(NoErr, 200, Content(FALSE, d)) : d \in PostDocs}


(***************************************************************************)
(* main's calls that the steps below use.                                  *)
(***************************************************************************)
\* page_url(root_url, i): f"{root_url}/{i}", the root left out.
page_url(i) == <<"/", i>>

\* main going on as soon as page_generator is not holding a page.
ListingDoneEarly(g) == g # "yielded"

\* The list comprehension of line 143 ends when page_generator returns.
ListingDone(g) == g = "closed"

\* A concat that keeps the first row of each url only.
RECURSIVE DropDuplicates(_)
DropDuplicates(recs) ==
    IF recs = <<>> THEN <<>>
    ELSE LET init == DropDuplicates(SubSeq(recs, 1, Len(recs) - 1))
             last == recs[Len(recs)]
         IN  IF \E i \in 1..Len(init) : init[i].url = last.url THEN init
             ELSE Append(init, last)

PdConcatDropDuplicates(fs) == DropDuplicates(Flatten(fs))

\* pd.concat: the frames' rows, in order.
concat(fs) == Flatten(fs)

\* requests.get(x): a url with no scheme (None, "") raises MissingSchema;
\* otherwise the server answers.
requests_get(server, x) ==
    IF x \in DOMAIN server THEN server[x]
    ELSE Response("MissingSchema", 0, EmptyContent)

\* Line 151 takes .content of whatever came back: only an exception raised
\* by requests.get itself ends the run, the status is not looked at.
PostFetchRaises(r) == r.exc

(***************************************************************************)
(* The state of one run of main.                                           *)
(***************************************************************************)
VARIABLES
    pc,       \* where main is: "paginate", "parse_link", "fetch_posts",
              \* "soup_posts", "parse_post", "to_csv", "done"
    err,      \* the exception that ended the run at pc, or NoErr
    page,     \* page_generator's page
    gen,      \* page_generator: "ready" (to run its loop body), "yielded"
              \* (suspended at yield with cur), "closed" (it returned)
    cur,      \* the soup page_generator yielded last
    soups,    \* main's soups
    frames,   \* the DataFrames parse_link returned, one per soup
    df,       \* main's df after pd.concat: one record per row
    htmls,    \* df["html"], as far as it is fetched
    psoups,   \* df["soup"] of line 152
    rows,     \* the rows parse_post returned
    written,  \* whether _posts/posts.csv.gz is written
    file,     \* its rows
    posts,    \* the server: url -> the response to a GET of it, Unasked
              \* until the first GET fixes it
    log       \* the requests and calls made so far, oldest first

vars ==
    <<pc, err, page, gen, cur, soups, frames, df, htmls, psoups, rows, written, file,
      posts, log>>

NoDoc == Doc(0, <<>>, <<>>)
NoResponse == Response(NoErr, 0, EmptyContent)
Unasked == Response("Unasked", 0, EmptyContent)
Event(op, i, url, r) == [op |-> op, i |-> i, url |-> url, r |-> r]

Running == err = NoErr

\* The index that stands for every page index above MaxPage + 1.
Beyond == MaxPage + 2

Init ==
    /\ pc = "paginate"
    /\ err = NoErr
    /\ page = 1
    /\ gen = "ready"
    /\ cur = NoDoc
    /\ soups = <<>>
    /\ frames = <<>>
    /\ df = <<>>
    /\ htmls = <<>>
    /\ psoups = <<>>
    /\ rows = <<>>
    /\ written = FALSE
    /\ file = <<>>
    /\ posts = [u \in Urls |-> Unasked]
    /\ log = <<>>

(***************************************************************************)
(* Phase 1, line 143: the list comprehension resumes page_generator, which *)
(* requests page `page` and breaks, yields or raises on the answer.        *)
(***************************************************************************)
page_generator ==
    /\ pc = "paginate" /\ Running /\ gen = "ready"
    /\ \E r \in ListingResponsesAt(page) :
         /\ page = Beyond => PageOutcome(r) = "yield"
         /\ log' = IF page = Beyond THEN log
                   ELSE Append(log, Event("get_page", page, page_url(page), r))
         /\ CASE PageOutcome(r) = "raise" ->
                   /\ err' = Raised(r)
                   /\ UNCHANGED <<page, gen, cur>>
              [] PageOutcome(r) = "break" ->
                   /\ gen' = "closed"
                   /\ UNCHANGED <<page, cur, err>>
              [] OTHER ->
                   /\ page' = IF page = Beyond THEN page ELSE page + 1
                   /\ gen' = "yielded"
                   /\ cur' = BeautifulSoup(r.content)
                   /\ UNCHANGED err
    /\ UNCHANGED <<pc, soups, frames, df, htmls, psoups, rows, written, file, posts>>

\* The comprehension takes the yielded soup.
Collect ==
    /\ pc = "paginate" /\ Running /\ gen = "yielded"
    /\ soups' = IF Len(soups) < MaxPage THEN Append(soups, cur) ELSE soups
    /\ gen' = "ready"
    /\ UNCHANGED <<pc, err, page, cur, frames, df, htmls, psoups, rows, written, file,
                   posts, log>>

\* page_generator returned: soups is complete (lines 143-144).
Drained ==
    /\ pc = "paginate" /\ Running /\ ListingDone(gen)
    /\ pc' = "parse_link"
    /\ UNCHANGED <<err, page, gen, cur, soups, frames, df, htmls, psoups, rows, written,
                   file, posts, log>>

\* Line 146, one row of df.apply(parse_link, axis=1).  With no soup at all
\* apply returns an empty frame and line 146 or 147 raises.
ApplyParseLink ==
    /\ pc = "parse_link" /\ Running
    /\ \/ /\ soups = <<>>
          /\ \E e \in {"AttributeError", "ValueError"} : err' = e
          /\ UNCHANGED <<frames, log>>
       \/ /\ Len(frames) < Len(soups)
          /\ LET res == parse_link(soups[Len(frames) + 1])
             IN  /\ err' = res.err
                 /\ frames' = IF res.err = NoErr THEN Append(frames, res.df) ELSE frames
          /\ log' = Append(log, Event("parse_link", Len(frames) + 1, NoErr, NoResponse))
    /\ UNCHANGED <<pc, page, gen, cur, soups, df, htmls, psoups, rows, written, file, posts>>

\* Line 147: pd.concat(df.tolist()).
Concat ==
    /\ pc = "parse_link" /\ Running
    /\ soups # <<>> /\ Len(frames) = Len(soups)
    /\ df' = concat(frames)
    /\ pc' = "fetch_posts"
    /\ UNCHANGED <<err, page, gen, cur, soups, frames, htmls, psoups, rows, written, file,
                   posts, log>>

(***************************************************************************)
(* Phase 2, line 151: one requests.get(x).content per row of df["url"].    *)
(***************************************************************************)
FetchPost ==
    /\ pc = "fetch_posts" /\ Running
    /\ Len(htmls) < Len(df)
    /\ LET x == df[Len(htmls) + 1].url
       IN  /\ \E a \in PostResponses :
                 posts' = IF x \in Urls /\ posts[x] = Unasked
                          THEN [posts EXCEPT ![x] = a] ELSE posts
           /\ LET r == requests_get(posts', x)
               IN  /\ err' = PostFetchRaises(r)
                   /\ htmls' = IF PostFetchRaises(r) = NoErr THEN Append(htmls, r.content)
                               ELSE htmls
                   /\ log' = Append(log, Event("get_post", Len(htmls) + 1, x, r))
    /\ UNCHANGED <<pc, page, gen, cur, soups, frames, df, psoups, rows, written, file>>

FetchedAll ==
    /\ pc = "fetch_posts" /\ Running
    /\ Len(htmls) = Len(df)
    /\ pc' = "soup_posts"
    /\ UNCHANGED <<err, page, gen, cur, soups, frames, df, htmls, psoups, rows, written,
                   file, posts, log>>

\* Line 152: df["soup"] = df["html"].apply(BeautifulSoup, ...).
SoupPosts ==
    /\ pc = "soup_posts" /\ Running
    /\ psoups' = [i \in 1..Len(htmls) |-> BeautifulSoup(htmls[i])]
    /\ pc' = "parse_post"
    /\ UNCHANGED <<err, page, gen, cur, soups, frames, df, htmls, rows, written, file,
                   posts, log>>

(***************************************************************************)
(* Phase 3, lines 155-157: parse_post on every row, then to_csv.           *)
(***************************************************************************)
Row(i) ==
    [url |-> df[i].url, title |-> df[i].title, author |-> df[i].author,
     date |-> df[i].date, html |-> htmls[i], soup |-> psoups[i]]

ApplyParsePost ==
    /\ pc = "parse_post" /\ Running
    /\ Len(rows) < Len(df)
    /\ LET res == parse_post(Row(Len(rows) + 1))
       IN  /\ err' = res.err
           /\ rows' = IF res.err = NoErr THEN Append(rows, res.df) ELSE rows
    /\ log' = Append(log, Event("parse_post", Len(rows) + 1, NoErr, NoResponse))
    /\ UNCHANGED <<pc, page, gen, cur, soups, frames, df, htmls, psoups, written, file,
                   posts>>

ParsedAll ==
    /\ pc = "parse_post" /\ Running
    /\ Len(rows) = Len(df)
    /\ pc' = "to_csv"
    /\ UNCHANGED <<err, page, gen, cur, soups, frames, df, htmls, psoups, rows, written,
                   file, posts, log>>

to_csv ==
    /\ pc = "to_csv" /\ Running
    /\ written' = TRUE
    /\ file' = rows
    /\ pc' = "done"
    /\ log' = Append(log, Event("to_csv", 0, NoErr, NoResponse))
    /\ UNCHANGED <<err, page, gen, cur, soups, frames, df, htmls, psoups, rows, posts>>

Next ==
    \/ page_generator
    \/ Collect
    \/ Drained
    \/ ApplyParseLink
    \/ Concat
    \/ FetchPost
    \/ FetchedAll
    \/ SoupPosts
    \/ ApplyParsePost
    \/ ParsedAll
    \/ to_csv

Spec == Init /\ [][Next]_vars

\* The program is sequential and runs every step it can.
FairSpec == Spec /\ WF_vars(Next)


(***************************************************************************)
(* What the properties below speak of.                                     *)
(***************************************************************************)
\* The listing requests, and the post requests, made so far.
PageLog == SelectSeq(log, LAMBDA e : e.op = "get_page")
PostLog == SelectSeq(log, LAMBDA e : e.op = "get_post")

\* A fetch that failed: a connection error, or an HTTP error status.
FetchFailed(r) == r.exc # NoErr \/ r.status >= 400

\* A listing answer with content and structure, and one with no further content.
ValidPage(r) ==
    ~FetchFailed(r) /\ ~r.content.empty /\ number_of_tags(r.content.doc) >= 2
NoFurtherContent(r) ==
    ~FetchFailed(r) /\ (r.content.empty \/ number_of_tags(r.content.doc) = 1)

\* The soups of the first n listing answers.
SoupsOf(n) == [j \in 1..n |-> BeautifulSoup(PageLog[j].r.content)]

\* The k-th listing answer is the first with no further content, after k - 1 valid ones.
FirstWithout(k) ==
    /\ k \in 1..Len(PageLog)
    /\ \A j \in 1..(k - 1) : ValidPage(PageLog[j].r)
    /\ NoFurtherContent(PageLog[k].r)

\* C1 as claimed: when pages 1..k-1 are valid and the k-th is the first with
\* no further content, page_generator has yielded exactly k pages.
C1_YieldsK ==
    \A k \in 1..Len(PageLog) : FirstWithout(k) /\ gen = "closed" => Len(soups) = k

\* C1 as amended: in that case page_generator makes no request after the
\* k-th and yields exactly the k - 1 pages before it; the k-th is not yielded.
C1_YieldsKMinus1 ==
    \A k \in 1..Len(PageLog) :
        FirstWithout(k) /\ gen = "closed" => Len(PageLog) = k /\ soups = SoupsOf(k - 1)

C1_Witness ==
    /\ gen = "closed"
    /\ Len(PageLog) >= 3
    /\ FirstWithout(Len(PageLog))
    /\ Len(soups) = Len(PageLog) - 1

\* C2: a listing fetch that fails (connection error or HTTP error status, at
\* any index) ends the sequence without an exception leaving page_generator,
\* and the pages yielded before it are all in soups.
C2_FailureEndsQuietly ==
    /\ pc = "paginate" => err = NoErr
    /\ \A k \in 1..Len(PageLog) :
          FetchFailed(PageLog[k].r) =>
              /\ k = Len(PageLog)
              /\ gen = "closed"
              /\ soups = SoupsOf(k - 1)

C2_Witness ==
    /\ Len(PageLog) >= 2
    /\ PageLog[Len(PageLog)].r.status >= 400
    /\ gen = "closed" /\ err = NoErr /\ Len(soups) = Len(PageLog) - 1

\* C3 as claimed: whatever the server answers, page_generator stops and
\* phase 1 of main ends.
C3_AlwaysTerminates == <>(pc # "paginate")

\* An answer that ends the sequence: a failed fetch or no further content.
LastAnswerEnds ==
    /\ PageLog # <<>>
    /\ \/ FetchFailed(PageLog[Len(PageLog)].r)
       \/ NoFurtherContent(PageLog[Len(PageLog)].r)

\* C3 as amended: once the server answers a page index with a failure, empty
\* content or a one-tag document, page_generator stops and phase 1 ends.
C3_TerminatesOnEnd == LastAnswerEnds ~> (pc # "paginate")

C3_Witness == LastAnswerEnds /\ pc = "parse_link" /\ Len(soups) >= 2

\* A preview with all that a record requires: a link target and title text.
HasUrl(it) == it.h1 /\ it.a /\ it.href \notin {None, ""}
HasTitle(it) == it.h1 /\ strip(it.text) # <<>>
Complete(it) == HasUrl(it) /\ HasTitle(it) /\ it.author # Absent /\ DateParses(it.date)
                  /\ it.date # Absent

\* parse_link has been called on soups[i]: it returned, or it raised.
Called(i) == i <= Len(frames) \/ (i = Len(frames) + 1 /\ pc = "parse_link" /\ err # NoErr)

\* C4: on a page of N valid previews (N >= 0) parse_link returns N records in
\* listing order, each with a non-empty url and title; on a page with a
\* preview that lacks its link target or its title text it fails.
C4_RecordsComplete ==
    \A i \in 1..Len(soups) :
        Called(i) =>
            LET its == soups[i].items
            IN  /\ (\A j \in 1..Len(its) : Complete(its[j])) =>
                      /\ i <= Len(frames)
                      /\ Len(frames[i]) = Len(its)
                      /\ \A j \in 1..Len(its) :
                            /\ frames[i][j].url = its[j].href
                            /\ frames[i][j].title = strip(its[j].text)
                /\ (\E j \in 1..Len(its) : ~HasUrl(its[j]) \/ ~HasTitle(its[j])) =>
                      i > Len(frames)
                /\ i <= Len(frames) =>
                      \A j \in 1..Len(frames[i]) :
                          /\ frames[i][j].url \notin {None, ""}
                          /\ frames[i][j].title # <<>>

\* parse_post has been called on row i.
PostCalled(i) == \E n \in 1..Len(log) : log[n].op = "parse_post" /\ log[n].i = i

\* C5: a post document with no article-body container makes parse_post
\* raise, which ends the run: no row is returned for it, the post is not
\* skipped, and nothing is written.
C5_MissingBodyFails ==
    \A i \in 1..Len(psoups) :
        psoups[i].body = <<>> =>
            /\ Len(rows) < i
            /\ ~written /\ pc # "done"
            /\ PostCalled(i) => pc = "parse_post" /\ err = "AttributeError"

C5_Witness ==
    /\ pc = "parse_post" /\ err = "AttributeError"
    /\ Len(rows) >= 1
    /\ psoups[Len(rows) + 1].body = <<>>

\* The urls of the previews on the yielded pages, and of the output's rows.
ListedUrls == Flatten([i \in 1..Len(soups) |->
                  [j \in 1..Len(soups[i].items) |-> soups[i].items[j].href]])
FileUrls == [i \in 1..Len(file) |-> file[i].url]

\* C6 as claimed: in a completed run no url is in two output rows, and
\* every output url is on a yielded listing page.
C6_UrlsUnique ==
    pc = "done" =>
        /\ \A i, j \in 1..Len(file) : i # j => file[i].url # file[j].url
        /\ \A i \in 1..Len(file) : Count(file[i].url, ListedUrls) >= 1

\* C6 as amended: in a completed run every url has exactly as many output
\* rows as previews on the yielded pages: none is made up, none is dropped,
\* and a url is in two rows only when it is listed twice.
C6_OneRowPerPreview ==
    pc = "done" =>
        \A u \in Urls \cup {FileUrls[i] : i \in 1..Len(file)} :
            Count(u, FileUrls) = Count(u, ListedUrls)

C6_Witness ==
    /\ pc = "done"
    /\ Len(soups) = 2
    /\ \E j \in 1..Len(soups[1].items), k \in 1..Len(soups[2].items) :
          soups[1].items[j].href = soups[2].items[k].href
    /\ \E i, j \in 1..Len(file) : i # j /\ file[i].url = file[j].url

\* C7: a post fetch that fails (connection error or HTTP error status), or
\* a post whose extraction fails, aborts the run and nothing is written.
C7_FailureAborts ==
    (\/ \E n \in 1..Len(PostLog) : FetchFailed(PostLog[n].r)
     \/ \E i \in 1..Len(psoups) : psoups[i].body = <<>>)
        => ~written /\ pc # "done"

\* All yielded listing pages are valid, and every post fetched so far came
\* back with status 200 and an article body.
AllListingsValid ==
    /\ gen = "closed"
    /\ soups # <<>>
    /\ \A i \in 1..Len(soups) :
          /\ soups[i].items # <<>>
          /\ \A j \in 1..Len(soups[i].items) : Complete(soups[i].items[j])
Fetchable(r) ==
    ~FetchFailed(r) /\ ~r.content.empty /\ r.content.doc.body # <<>>
AllPostsFetchable == \A n \in 1..Len(PostLog) : Fetchable(PostLog[n].r)

PreviewCount == SumSeq([i \in 1..Len(soups) |-> Len(soups[i].items)])

\* C8: with valid listing pages and fetchable posts the run goes on to its
\* end without an error, and the output has one row per preview of the
\* yielded pages, each with a post_markdown that is not null.
C8_EndToEnd ==
    AllListingsValid /\ AllPostsFetchable =>
        /\ err = NoErr
        /\ pc = "done" \/ ENABLED Next
        /\ pc = "done" =>
              /\ written
              /\ Len(file) = PreviewCount
              /\ \A i \in 1..Len(file) : file[i].post_markdown # Null

C8_Witness ==
    /\ pc = "done" /\ AllListingsValid /\ AllPostsFetchable
    /\ Len(soups) = 2 /\ Len(soups[1].items) = 2 /\ Len(soups[2].items) = 1
    /\ Len(file) = 3

\* A listing answer that the claim says ends the sequence.
Degenerate(r) ==
    FetchFailed(r) \/ r.content.empty \/ number_of_tags(r.content.doc) <= 1

\* C9: page indices are requested as 1, 2, 3, ..., and the first index whose
\* fetch fails, whose content is empty or whose document has no meaningful
\* structure (no tag at all included) ends the sequence: it is not yielded
\* and no higher index is requested.
C9_EndsAtFirstDegenerate ==
    /\ \A k \in 1..Len(PageLog) : PageLog[k].i = k
    /\ \A k \in 1..Len(PageLog) :
          Degenerate(PageLog[k].r) =>
              /\ k = Len(PageLog)
              /\ gen = "closed"
              /\ Len(soups) <= k - 1

\* The phase of each logged call.
Phase(op) ==
    CASE op = "get_page" -> 1
      [] op = "parse_link" -> 1
      [] op = "get_post" -> 2
      [] op = "parse_post" -> 3
      [] OTHER -> 4

\* C10: the phases of main follow one another and never go back: a post is
\* fetched only once the generator has returned and every listing page is
\* parsed, no listing page is fetched after a post, every record's url is
\* fetched exactly once, and the file is written only after every post has
\* been fetched and extracted.
C10_PhasesInOrder ==
    /\ \A m, n \in 1..Len(log) : m < n => Phase(log[m].op) <= Phase(log[n].op)
    /\ \A m, n \in 1..Len(log) :
          m < n /\ log[n].op = "get_page" => log[m].op = "get_page"
    /\ PostLog # <<>> =>
          /\ gen = "closed"
          /\ Len(frames) = Len(soups)
          /\ df = Flatten(frames)
    /\ Len(PostLog) <= Len(df)
    /\ \A n \in 1..Len(PostLog) : PostLog[n].i = n /\ PostLog[n].url = df[n].url
    /\ pc \in {"soup_posts", "parse_post", "to_csv", "done"} => Len(PostLog) = Len(df)
    /\ written =>
          /\ pc = "done"
          /\ Len(htmls) = Len(df) /\ Len(rows) = Len(df) /\ file = rows
          /\ log[Len(log)].op = "to_csv"

C10_Witness ==
    /\ pc = "done" /\ written
    /\ Len(soups) = 2 /\ Len(df) = 3 /\ Len(PostLog) = 3

====
